---- MODULE Spec2Model ----
(***************************************************************************)
(* Request queue and worker lifecycle of the TikTok downloader bot         *)
(* (src/app.py), with the parts of src/downloader.py and src/database.py   *)
(* that the worker calls.                                                  *)
(*                                                                         *)
(* Everything runs on one asyncio event loop: a coroutine runs until its   *)
(* next await, so the code between two awaits is atomic.  A task is        *)
(* "yielded" when it is suspended at an await; the steps of every other    *)
(* task are enabled only while all workers are yielded.                    *)
(***************************************************************************)
EXTENDS Integers, Sequences, FiniteSets, TLC

(* ---------------------------- bounds ---------------------------------- *)
\* number of handle_message invocations (update deliveries) in a run
MaxSubmissions == 2
\* distinct Telegram users
NumUsers == 2
\* clock resolution: ticks per second (datetime keeps fractions of a second)
TicksPerSecond == 2
\* clock readings are taken up to this many ticks after each of the instants
\* 0, one second, and the end of the cooldown window (and before the latter)
Slack == 1
\* task slots of the event loop that a download_worker task can occupy
MaxWorkers == 2

(* ----------------------- program constants ---------------------------- *)
COOLDOWN_SECONDS == 15

Users == 1..NumUsers
HandlerIds == 1..MaxSubmissions
WorkerIds == 1..MaxWorkers
\* worker_task = None
NoTask == 0
\* no task dict held
NoJob == [id |-> 0, user_id |-> 0, url |-> <<>>, processing_msg |-> <<>>,
          queue_position |-> 0]

(* ------------------------- message texts ------------------------------ *)
\* A text is a sequence of characters.
Marker == <<"t", "i", "k", "t", "o", "k", ".", "c", "o", "m">>
UrlMixed == <<" ", "T", "i", "k", "T", "O", "K", ".", "c", "o", "M", " ">>
NotAUrl == <<"t", "i", "k", ".", "c", "o", "m">>
Texts == {UrlMixed, NotAUrl}

UpperChars == <<"T", "I", "K", "O", "C", "M">>
LowerChars == <<"t", "i", "k", "o", "c", "m">>

\* str.lower(), character by character
LowerChar(c) ==
    IF \E i \in 1..Len(UpperChars) : UpperChars[i] = c
    THEN LowerChars[CHOOSE i \in 1..Len(UpperChars) : UpperChars[i] = c]
    ELSE c

Lower(s) == [i \in 1..Len(s) |-> LowerChar(s[i])]

\* str.strip(): drop leading and trailing blanks
RECURSIVE Strip(_)
Strip(s) ==
    IF s = <<>> THEN s
    ELSE IF Head(s) = " " THEN Strip(Tail(s))
    ELSE IF s[Len(s)] = " " THEN Strip(SubSeq(s, 1, Len(s) - 1))
    ELSE s

\* `sub in s` on strings
Contains(s, sub) ==
    \E i \in 0..(Len(s) - Len(sub)) : SubSeq(s, i + 1, i + Len(sub)) = sub

\* the shape check of handle_message
IsTikTokUrl(message_text) == Contains(Lower(message_text), Marker)

(* ----------------------------- state ---------------------------------- *)
VARIABLES
    now,              \* datetime.now(timezone.utc), in ticks
    user_cooldowns,   \* dict user_id -> time of the last accepted submission
    download_queue,   \* asyncio.Queue: the pending task dicts, oldest first
    is_processing,    \* module flag
    supabase_configured, \* db.supabase_url and db.supabase_key are both set
    connected,        \* db.connected
    worker_task,      \* the task lifespan created, or None
    lpc,              \* position of lifespan
    wpc,              \* position of each download_worker task
    wjob,             \* the task dict a worker holds between get() and finally
    cancel_pending,   \* Task.cancel() was called and CancelledError not yet thrown
    cancel_at,        \* the await at which a worker last received CancelledError
    handler,          \* the handle_message invocations
    processing_msg,   \* the text of the status message of the task a worker took last
    wresult,          \* the result dict a worker got from download_video
    trail,            \* history: the job a worker took last and what it did for it
    dv,               \* a call of download_video: its position and locals
    dv_log,           \* history: what the calls of download_video returned
    files,            \* job ids whose artifact exists under DOWNLOAD_DIR
    memory_downloads, \* db._memory_downloads
    enq_log,          \* job ids in the order of download_queue.put
    put_depth,        \* per job, qsize() at the moment of its put
    fetch_log,        \* job ids in the order of downloader.download_video calls
    resolved,         \* job ids whose processing reached the finally block normally
    db_calls,         \* history: the track_download calls made on db directly
    db_read           \* what the last get_stats or get_user_stats returned

appVars == <<now, user_cooldowns, download_queue, is_processing,
             supabase_configured, connected,
             worker_task, lpc, wpc, wjob, cancel_pending, cancel_at, handler,
             files, memory_downloads, enq_log, put_depth, fetch_log, resolved,
             processing_msg, wresult, trail>>
scraperVars == <<dv, dv_log>>
statsVars == <<db_calls, db_read>>
vars == <<appVars, scraperVars, statsVars>>

gateVars == <<now, user_cooldowns, download_queue, handler, enq_log, put_depth>>
workerVars == <<is_processing, wpc, wjob, cancel_pending, cancel_at, files,
                memory_downloads, fetch_log, resolved, wresult, trail>>
lifeVars == <<supabase_configured, connected, worker_task, lpc>>

(* ------------------------------ values -------------------------------- *)
\* Python's None, and a value that is present
None == <<>>
Some(v) == <<v>>

\* the dict download_video starts from
InitialResult(url) ==
    [success |-> FALSE, url |-> url, download_path |-> None, error |-> None]

\* result['success'] = True; result['download_path'] = str(download_path)
SuccessResult(url, path) ==
    [InitialResult(url) EXCEPT !.success = TRUE, !.download_path = Some(path)]

\* mutant: the exception is logged and its text is not stored
FailureResultSilent(url, e) == InitialResult(url)

\* result['error'] = str(e)
FailureResult(url, e) == [InitialResult(url) EXCEPT !.error = Some(e)]

\* no result is bound in the worker
NoResult == InitialResult(<<>>)

\* no call of download_video is running
IdleCall ==
    [pc |-> "idle", result |-> NoResult, download_url |-> None, seen |-> <<>>]

\* the texts of the status message of a submission
NoMessage == NoJob.processing_msg
MsgAck(queue_size) ==
    IF queue_size > 0 THEN <<"Added to queue. Position", queue_size + 1>>
    ELSE <<"Processing your video">>
MsgDownloading == <<"Downloading your video">>
MsgFailed(result) == <<"Failed to download video. Error", result.error>>
MsgError == <<"An error occurred">>
MsgDeleted == <<"deleted">>

\* nothing was taken yet
NoTrail == [job |-> NoJob.id, did |-> {}]

CooldownTicks == COOLDOWN_SECONDS * TicksPerSecond

\* no statistics were read yet
NoRead ==
    [op |-> "none", user_id |-> 0,
     stats |-> [total_downloads |-> 0, successful_downloads |-> 0,
                failed_downloads |-> 0]]

IdleHandler ==
    [pc |-> "idle", user |-> 0, text |-> <<>>, at |-> 0, verdict |-> "none",
     remaining |-> 0, shown |-> 0, queue_size |-> 0]

\* the module state after import, with db = Database(SUPABASE_URL, SUPABASE_KEY)
\* built from an environment that sets both values or not
Boot(configured) ==
    /\ now = 0
    /\ user_cooldowns = <<>>
    /\ download_queue = <<>>
    /\ is_processing = FALSE
    /\ supabase_configured = configured
    /\ connected = FALSE
    /\ worker_task = NoTask
    /\ lpc = "startup"
    /\ wpc = [w \in WorkerIds |-> "unborn"]
    /\ wjob = [w \in WorkerIds |-> NoJob]
    /\ cancel_pending = [w \in WorkerIds |-> FALSE]
    /\ cancel_at = [w \in WorkerIds |-> "none"]
    /\ handler = [h \in HandlerIds |-> IdleHandler]
    /\ files = {}
    /\ memory_downloads = <<>>
    /\ enq_log = <<>>
    /\ put_depth = [h \in HandlerIds |-> 0]
    /\ fetch_log = <<>>
    /\ resolved = {}
    /\ processing_msg = [w \in WorkerIds |-> NoMessage]
    /\ wresult = [w \in WorkerIds |-> NoResult]
    /\ trail = [w \in WorkerIds |-> NoTrail]
    /\ dv = IdleCall
    /\ dv_log = <<>>
    /\ db_calls = <<>>
    /\ db_read = NoRead

\* The deployment with Supabase configured.  It covers the one without: there
\* initialize() leaves connected False, as a failed test request does, and
\* nothing reads the configuration afterwards.
Init == Boot(TRUE)

\* either deployment
StartupInit == \E configured \in BOOLEAN : Boot(configured)

(* ------------------------ event-loop scheduling ----------------------- *)
\* awaits at which a worker is suspended
AwaitPcs == {"get", "edit_status", "download", "reply_video", "delete_msg",
             "edit_fail", "edit_err"}
\* inside db.track_download: suspended only when the remote store is used
TrackPcs == {"track_ok", "track_fail", "track_err"}

\* a worker task that is done: it returned, or CancelledError or another
\* exception left it
EndedPcs == {"returned", "cancelled", "raised"}

Yielded(w) ==
    \/ wpc[w] \in AwaitPcs \cup {"unborn"} \cup EndedPcs
    \/ wpc[w] \in TrackPcs /\ connected

AllYielded == \A w \in WorkerIds : Yielded(w)

\* updates are delivered while the Telegram application is set up
Serving == lpc \in {"serving", "await_worker"}

(* --------------------------- the clock -------------------------------- *)
\* The instants at which the clock is read: around the start, one second
\* later, and around the end of a cooldown window that started at 0.
Instants ==
    {t \in 0..(CooldownTicks + TicksPerSecond + Slack) :
        \/ t <= Slack
        \/ t >= TicksPerSecond /\ t <= TicksPerSecond + Slack
        \/ t >= CooldownTicks - Slack /\ t <= CooldownTicks + Slack}

\* Time passes to the next instant.  The clock is read by handle_message
\* alone: once every invocation of the run has read it, later readings are
\* not observed and are not generated.
Tick ==
    /\ AllYielded
    /\ \E h \in HandlerIds : handler[h].pc = "idle"
    /\ \E t \in Instants :
          /\ t > now
          /\ \A s \in Instants : s > now => t <= s
          /\ now' = t
    /\ UNCHANGED <<user_cooldowns, download_queue, handler, enq_log, put_depth>>
    /\ UNCHANGED workerVars
    /\ UNCHANGED lifeVars
    /\ UNCHANGED processing_msg
    /\ UNCHANGED scraperVars
    /\ UNCHANGED statsVars

\* Time passes by a whole cooldown window at once.
TickWindow ==
    /\ AllYielded
    /\ \E h \in HandlerIds : handler[h].pc = "idle"
    /\ now + CooldownTicks \in Instants
    /\ now' = now + CooldownTicks
    /\ UNCHANGED <<user_cooldowns, download_queue, handler, enq_log, put_depth>>
    /\ UNCHANGED workerVars
    /\ UNCHANGED lifeVars
    /\ UNCHANGED processing_msg
    /\ UNCHANGED scraperVars
    /\ UNCHANGED statsVars

(* ------------------------- handle_message ----------------------------- *)
\* remaining = COOLDOWN_SECONDS - elapsed, in ticks
Remaining(last_download, t) == CooldownTicks - (t - last_download)

\* mutant: the window ends a second early (`if remaining > 1`)
CooldownActiveLate(remaining) == remaining > TicksPerSecond

\* `if remaining > 0`
CooldownActive(remaining) == remaining > 0

\* int(remaining): truncation toward zero of the remaining seconds
IntOf(ticks) ==
    IF ticks >= 0 THEN ticks \div TicksPerSecond
    ELSE -((-ticks) \div TicksPerSecond)

\* mutant: the registry is rebuilt with the writer's entry alone
SetCooldownAlone(cooldowns, u, t) == [x \in {u} |-> t]

\* user_cooldowns[user.id] = now
SetCooldown(cooldowns, u, t) ==
    [x \in (DOMAIN cooldowns) \cup {u} |-> IF x = u THEN t ELSE cooldowns[x]]

\* mutant: the registry entry is refreshed before the cooldown test, so a
\* rejected attempt extends the cooldown
HandleMessageExtends(h, u, txt) ==
    /\ AllYielded
    /\ Serving
    /\ handler[h].pc = "idle"
    /\ \A g \in HandlerIds : g < h => handler[g].pc # "idle"
    /\ \A v \in Users : v < u => \E g \in HandlerIds : handler[g].user = v
    /\ LET message_text == Strip(txt)
           base == [handler[h] EXCEPT !.user = u, !.text = message_text, !.at = now]
       IN  IF ~IsTikTokUrl(message_text)
           THEN /\ handler' = [handler EXCEPT ![h] =
                        [base EXCEPT !.pc = "done", !.verdict = "invalid"]]
                /\ UNCHANGED user_cooldowns
           ELSE IF /\ u \in DOMAIN user_cooldowns
                   /\ CooldownActive(Remaining(user_cooldowns[u], now))
           THEN /\ handler' = [handler EXCEPT ![h] =
                        [base EXCEPT !.pc = "done", !.verdict = "cooldown",
                                     !.remaining = Remaining(user_cooldowns[u], now),
                                     !.shown = IntOf(Remaining(user_cooldowns[u], now))]]
                /\ user_cooldowns' = SetCooldown(user_cooldowns, u, now)
           ELSE /\ user_cooldowns' = SetCooldown(user_cooldowns, u, now)
                /\ handler' = [handler EXCEPT ![h] =
                        [base EXCEPT !.pc = "ack", !.verdict = "accepted",
                                     !.queue_size = Len(download_queue)]]
    /\ UNCHANGED <<now, download_queue, enq_log, put_depth>>
    /\ UNCHANGED workerVars
    /\ UNCHANGED lifeVars
    /\ UNCHANGED processing_msg
    /\ UNCHANGED scraperVars
    /\ UNCHANGED statsVars

\* Invocations are numbered in the order they start, users in the order they
\* first write (user ids are only compared for equality).
\* handle_message from its entry to its first await on the accepting path
\* (reply_text of the acknowledgement), or to its return when it rejects
HandleMessage(h, u, txt) ==
    /\ AllYielded
    /\ Serving
    /\ handler[h].pc = "idle"
    /\ \A g \in HandlerIds : g < h => handler[g].pc # "idle"
    /\ \A v \in Users : v < u => \E g \in HandlerIds : handler[g].user = v
    /\ LET message_text == Strip(txt)
           base == [handler[h] EXCEPT !.user = u, !.text = message_text, !.at = now]
       IN  IF ~IsTikTokUrl(message_text)
           THEN /\ handler' = [handler EXCEPT ![h] =
                        [base EXCEPT !.pc = "done", !.verdict = "invalid"]]
                /\ UNCHANGED user_cooldowns
           ELSE IF /\ u \in DOMAIN user_cooldowns
                   /\ CooldownActive(Remaining(user_cooldowns[u], now))
           THEN /\ handler' = [handler EXCEPT ![h] =
                        [base EXCEPT !.pc = "done", !.verdict = "cooldown",
                                     !.remaining = Remaining(user_cooldowns[u], now),
                                     !.shown = IntOf(Remaining(user_cooldowns[u], now))]]
                /\ UNCHANGED user_cooldowns
           ELSE /\ user_cooldowns' = SetCooldown(user_cooldowns, u, now)
                /\ handler' = [handler EXCEPT ![h] =
                        [base EXCEPT !.pc = "ack", !.verdict = "accepted",
                                     !.queue_size = Len(download_queue)]]
    /\ UNCHANGED <<now, download_queue, enq_log, put_depth>>
    /\ UNCHANGED workerVars
    /\ UNCHANGED lifeVars
    /\ UNCHANGED processing_msg
    /\ UNCHANGED scraperVars
    /\ UNCHANGED statsVars

\* the dict put on the queue
TaskDict(h) ==
    [id |-> h, user_id |-> handler[h].user, url |-> handler[h].text,
     processing_msg |-> MsgAck(handler[h].queue_size),
     queue_position |-> handler[h].queue_size + 1]

\* asyncio.Queue() is created without a maxsize
maxsize == 0

\* mutant: the queue is created with maxsize=1
QueueFullAtOne(q) == Len(q) >= 1

\* Queue.full(): never, when maxsize <= 0
QueueFull(q) == IF maxsize <= 0 THEN FALSE ELSE Len(q) >= maxsize

\* download_queue.put(item) on the unbounded queue: never suspends
QueuePut(q, item) == Append(q, item)

\* the acknowledgement was sent: the task dict is put on the queue (put()
\* suspends only while the queue is full)
AckReturns(h) ==
    /\ AllYielded
    /\ handler[h].pc = "ack"
    /\ ~QueueFull(download_queue)
    /\ download_queue' = QueuePut(download_queue, TaskDict(h))
    /\ enq_log' = Append(enq_log, h)
    /\ put_depth' = [put_depth EXCEPT ![h] = Len(download_queue)]
    /\ handler' = [handler EXCEPT ![h].pc = "done"]
    /\ UNCHANGED <<now, user_cooldowns>>
    /\ UNCHANGED workerVars
    /\ UNCHANGED lifeVars
    /\ UNCHANGED processing_msg
    /\ UNCHANGED scraperVars
    /\ UNCHANGED statsVars

\* reply_text raised: the exception leaves handle_message before the put
AckRaises(h) ==
    /\ AllYielded
    /\ handler[h].pc = "ack"
    /\ handler' = [handler EXCEPT ![h].pc = "failed"]
    /\ UNCHANGED <<now, user_cooldowns, download_queue, enq_log, put_depth>>
    /\ UNCHANGED workerVars
    /\ UNCHANGED lifeVars
    /\ UNCHANGED processing_msg
    /\ UNCHANGED scraperVars
    /\ UNCHANGED statsVars

(* --------------------------- Python except ---------------------------- *)
\* Which exceptions an except clause catches.  asyncio.CancelledError derives
\* from BaseException, so `except Exception` lets it through while a bare
\* `except:` catches it.
Catches(clause, exc) ==
    CASE clause = "bare" -> TRUE
      [] clause = "Exception" -> exc = "Exception"
      [] clause = "CancelledError" -> exc = "CancelledError"

\* what the worker's await raises when it is resumed: CancelledError when
\* Task.cancel() was called, otherwise whatever the awaited call does
Thrown(w, raises) ==
    IF cancel_pending[w] THEN "CancelledError"
    ELSE IF raises THEN "Exception" ELSE "ok"

(* --------------------------- download_worker -------------------------- *)
OthersYielded(w) == \A v \in WorkerIds \ {w} : Yielded(v)

\* mutant: get() hands out the newest item (a LifoQueue)
QueueGetNewest(q) == [item |-> q[Len(q)], rest |-> SubSeq(q, 1, Len(q) - 1)]

\* download_queue.get() on a non-empty queue: the oldest item
QueueGet(q) == [item |-> Head(q), rest |-> Tail(q)]

\* mutant: no handler for CancelledError around the loop, it leaves the task
CancelExitEscapes == "cancelled"

\* `except asyncio.CancelledError: break`: the coroutine returns normally
CancelExit == "returned"

\* CancelledError reaches the outer handlers of the while loop: the finally
\* block of the job (if one is held) has run, then the loop is left
CancelledOut(w, at) ==
    /\ wpc' = [wpc EXCEPT ![w] =
                  IF Catches("CancelledError", "CancelledError")
                  THEN CancelExit ELSE "cancelled"]
    /\ cancel_pending' = [cancel_pending EXCEPT ![w] = FALSE]
    /\ cancel_at' = [cancel_at EXCEPT ![w] = at]
    /\ wjob' = [wjob EXCEPT ![w] = NoJob]

\* a bare `except: pass` around an await swallowed whatever was thrown
Swallowed(w, at) ==
    /\ cancel_pending' = [cancel_pending EXCEPT ![w] = FALSE]
    /\ cancel_at' = [cancel_at EXCEPT ![w] =
                        IF cancel_pending[w] THEN at ELSE cancel_at[w]]

\* task = await download_queue.get(); is_processing = True; the locals of the
\* loop body (processing_msg, result) are rebound to the new task, and with
\* them the trail of what was done for it; then the status edit is awaited
Dequeue(w) ==
    /\ download_queue # <<>>
    /\ wjob' = [wjob EXCEPT ![w] = QueueGet(download_queue).item]
    /\ download_queue' = QueueGet(download_queue).rest
    /\ processing_msg' =
          [processing_msg EXCEPT ![w] = QueueGet(download_queue).item.processing_msg]
    /\ trail' = [trail EXCEPT ![w] =
                    [job |-> QueueGet(download_queue).item.id, did |-> {}]]
    /\ wresult' = [wresult EXCEPT ![w] = NoResult]
    /\ is_processing' = TRUE
    /\ wpc' = [wpc EXCEPT ![w] = "edit_status"]

\* resumed in `await download_queue.get()`
WorkerGet(w) ==
    /\ OthersYielded(w)
    /\ wpc[w] = "get"
    /\ ~cancel_pending[w]
    /\ Dequeue(w)
    /\ UNCHANGED <<cancel_pending, cancel_at, files, memory_downloads,
                   fetch_log, resolved>>
    /\ UNCHANGED <<now, user_cooldowns, handler, enq_log, put_depth>>
    /\ UNCHANGED lifeVars
    /\ UNCHANGED scraperVars
    /\ UNCHANGED statsVars

\* cancelled while suspended in `await download_queue.get()`: the getter is
\* withdrawn and no item is taken
WorkerGetCancelled(w) ==
    /\ OthersYielded(w)
    /\ wpc[w] = "get"
    /\ cancel_pending[w]
    /\ CancelledOut(w, "get")
    /\ UNCHANGED <<is_processing, files, memory_downloads, fetch_log, resolved,
                   wresult, trail>>
    /\ UNCHANGED gateVars
    /\ UNCHANGED lifeVars
    /\ UNCHANGED processing_msg
    /\ UNCHANGED scraperVars
    /\ UNCHANGED statsVars

\* mutant: the loop is left after the first job
WorkerLoopStops(w) ==
    /\ OthersYielded(w)
    /\ wpc[w] = "loop"
    /\ wpc' = [wpc EXCEPT ![w] = "returned"]
    /\ UNCHANGED <<download_queue, wjob, is_processing>>
    /\ UNCHANGED <<cancel_pending, cancel_at, files, memory_downloads,
                   fetch_log, resolved, wresult, trail>>
    /\ UNCHANGED <<now, user_cooldowns, handler, enq_log, put_depth>>
    /\ UNCHANGED lifeVars
    /\ UNCHANGED processing_msg
    /\ UNCHANGED scraperVars
    /\ UNCHANGED statsVars

\* top of `while True` after a job: get() returns at once when an item waits
WorkerLoop(w) ==
    /\ OthersYielded(w)
    /\ wpc[w] = "loop"
    /\ IF download_queue # <<>>
       THEN Dequeue(w)
       ELSE /\ wpc' = [wpc EXCEPT ![w] = "get"]
            /\ UNCHANGED <<download_queue, wjob, is_processing, processing_msg,
                           trail, wresult>>
    /\ UNCHANGED <<cancel_pending, cancel_at, files, memory_downloads,
                   fetch_log, resolved>>
    /\ UNCHANGED <<now, user_cooldowns, handler, enq_log, put_depth>>
    /\ UNCHANGED lifeVars
    /\ UNCHANGED scraperVars
    /\ UNCHANGED statsVars

\* worker w did `what` for the job it holds
Mark(w, what) == [trail EXCEPT ![w].did = @ \cup {what}]

\* an edit_text or delete call on the status message of the job w holds:
\* the message shows the new text when the call reached Telegram; when it
\* raised, or was cancelled before it was sent, the message keeps its text
EditMessage(w, text) ==
    \E edited \in BOOLEAN :
        processing_msg' = IF edited THEN [processing_msg EXCEPT ![w] = text]
                          ELSE processing_msg

\* mutant: the job has no `except Exception` and the loop's handler re-raises
RaisedInJobEscapes(w) ==
    /\ wpc' = [wpc EXCEPT ![w] = "raised"]
    /\ wjob' = [wjob EXCEPT ![w] = NoJob]
    /\ is_processing' = FALSE
    /\ resolved' = resolved \cup {wjob[w].id}

\* an Exception is raised in the try block of a job: `except Exception` of
\* the job; were it not caught, the finally block runs and the exception
\* reaches the handlers of the loop
RaisedInJob(w) ==
    IF Catches("Exception", "Exception")
    THEN /\ wpc' = [wpc EXCEPT ![w] = "track_err"]
         /\ UNCHANGED <<wjob, is_processing, resolved>>
    ELSE /\ wpc' = [wpc EXCEPT ![w] = "raised"]
         /\ wjob' = [wjob EXCEPT ![w] = NoJob]
         /\ is_processing' = FALSE
         /\ resolved' = resolved \cup {wjob[w].id}

\* an Exception is raised inside the `except Exception` block of a job: the
\* finally block runs, then `except Exception` of the loop, which goes on
RaisedInHandler(w) ==
    /\ wpc' = [wpc EXCEPT ![w] =
                  IF Catches("Exception", "Exception") THEN "loop" ELSE "raised"]
    /\ wjob' = [wjob EXCEPT ![w] = NoJob]
    /\ is_processing' = FALSE
    /\ resolved' = resolved \cup {wjob[w].id}

\* resumed in `await processing_msg.edit_text("Downloading...")`, inside
\* `try: ... except: pass`; then downloader.download_video is called
WorkerEditStatus(w) ==
    /\ OthersYielded(w)
    /\ wpc[w] = "edit_status"
    /\ IF Catches("bare", Thrown(w, FALSE))
       THEN /\ Swallowed(w, "edit_status")
            /\ EditMessage(w, MsgDownloading)
            /\ fetch_log' = Append(fetch_log, wjob[w].id)
            /\ wpc' = [wpc EXCEPT ![w] = "download"]
            /\ UNCHANGED <<wjob, is_processing>>
       ELSE /\ CancelledOut(w, "edit_status")
            /\ is_processing' = FALSE
            /\ UNCHANGED <<fetch_log, processing_msg>>
    /\ UNCHANGED <<files, memory_downloads, resolved, wresult, trail>>
    /\ UNCHANGED gateVars
    /\ UNCHANGED lifeVars
    /\ UNCHANGED scraperVars
    /\ UNCHANGED statsVars

\* mutant: the flag is not reset when a job is left by a CancelledError
JobCancelledKeepsFlag(w, at) ==
    /\ CancelledOut(w, at)
    /\ UNCHANGED is_processing

\* the finally block of a job on a CancelledError, then the outer handler
JobCancelled(w, at) ==
    /\ CancelledOut(w, at)
    /\ is_processing' = FALSE

\* the errors download_video reports to the worker in this model
WorkerErrors == {<<"No download link found">>, <<"Download failed: ", 404>>}

\* download_video returned success: the artifact is on disk
DownloadSucceeds(w) ==
    /\ OthersYielded(w)
    /\ wpc[w] = "download"
    /\ Thrown(w, FALSE) = "ok"
    /\ files' = files \cup {wjob[w].id}
    /\ wresult' = [wresult EXCEPT ![w] = SuccessResult(wjob[w].url, wjob[w].id)]
    /\ trail' = Mark(w, "fetch_ok")
    /\ wpc' = [wpc EXCEPT ![w] = "track_ok"]
    /\ UNCHANGED <<is_processing, wjob, cancel_pending, cancel_at,
                   memory_downloads, fetch_log, resolved>>
    /\ UNCHANGED gateVars
    /\ UNCHANGED lifeVars
    /\ UNCHANGED processing_msg
    /\ UNCHANGED scraperVars
    /\ UNCHANGED statsVars

\* download_video caught an ordinary failure and returned success = False
DownloadFails(w) ==
    /\ OthersYielded(w)
    /\ wpc[w] = "download"
    /\ Thrown(w, FALSE) = "ok"
    /\ \E e \in WorkerErrors :
          wresult' = [wresult EXCEPT ![w] = FailureResult(wjob[w].url, e)]
    /\ trail' = Mark(w, "fetch_failed")
    /\ wpc' = [wpc EXCEPT ![w] = "track_fail"]
    /\ UNCHANGED <<is_processing, wjob, cancel_pending, cancel_at, files,
                   memory_downloads, fetch_log, resolved>>
    /\ UNCHANGED gateVars
    /\ UNCHANGED lifeVars
    /\ UNCHANGED processing_msg
    /\ UNCHANGED scraperVars
    /\ UNCHANGED statsVars

\* download_video raised (outside its own try block, as in the set-up or
\* the closing of its HTTP client)
DownloadRaises(w) ==
    /\ OthersYielded(w)
    /\ wpc[w] = "download"
    /\ Thrown(w, TRUE) = "Exception"
    /\ trail' = Mark(w, "fetch_raised")
    /\ RaisedInJob(w)
    /\ UNCHANGED <<cancel_pending, cancel_at, files, memory_downloads,
                   fetch_log, wresult>>
    /\ UNCHANGED gateVars
    /\ UNCHANGED lifeVars
    /\ UNCHANGED processing_msg
    /\ UNCHANGED scraperVars
    /\ UNCHANGED statsVars

\* cancelled inside download_video: before the file is written, or in the
\* closing of the HTTP client after it was written
DownloadCancelled(w) ==
    /\ OthersYielded(w)
    /\ wpc[w] = "download"
    /\ Thrown(w, FALSE) = "CancelledError"
    /\ ~Catches("Exception", "CancelledError")
    /\ \E written \in BOOLEAN :
          files' = IF written THEN files \cup {wjob[w].id} ELSE files
    /\ JobCancelled(w, "download")
    /\ UNCHANGED <<memory_downloads, fetch_log, resolved, wresult, trail>>
    /\ UNCHANGED gateVars
    /\ UNCHANGED lifeVars
    /\ UNCHANGED processing_msg
    /\ UNCHANGED scraperVars
    /\ UNCHANGED statsVars

\* what the remote post of track_download does: it is answered (the status
\* of the answer is not looked at), or it raises
PostOutcomes == {"ok", "error_status", "raises"}

\* mutant: track_download has no try around the remote post
TrackSwallowsNothing(exc) == FALSE

\* `except Exception` around the remote post: logged and dropped
TrackSwallows(exc) == Catches("Exception", exc)

\* db.track_download(user_id, url, success), after the remote post: the
\* append to the in-memory list (job is the history of which job it was for)
TrackDownload(downloads, task, success) ==
    Append(downloads, [user_id |-> task.user_id, url |-> task.url,
                       success |-> success, job |-> task.id])

AfterTrack(pc) ==
    CASE pc = "track_ok" -> "reply_video"
      [] pc = "track_fail" -> "edit_fail"
      [] pc = "track_err" -> "edit_err"

WorkerTrack(w) ==
    /\ OthersYielded(w)
    /\ wpc[w] \in TrackPcs
    /\ ~(connected /\ cancel_pending[w])
    /\ \E post \in (IF connected THEN PostOutcomes ELSE {"none"}) :
          /\ trail' = IF post \in {"error_status", "raises"}
                        THEN Mark(w, "post_failed") ELSE trail
          /\ IF post = "raises" /\ ~TrackSwallows("Exception")
             THEN /\ IF wpc[w] = "track_err"
                     THEN RaisedInHandler(w) ELSE RaisedInJob(w)
                  /\ UNCHANGED memory_downloads
             ELSE /\ memory_downloads' =
                        TrackDownload(memory_downloads, wjob[w], wpc[w] = "track_ok")
                  /\ wpc' = [wpc EXCEPT ![w] = AfterTrack(wpc[w])]
                  /\ UNCHANGED <<is_processing, wjob, resolved>>
    /\ UNCHANGED <<cancel_pending, cancel_at, files, fetch_log, wresult>>
    /\ UNCHANGED gateVars
    /\ UNCHANGED lifeVars
    /\ UNCHANGED processing_msg
    /\ UNCHANGED scraperVars
    /\ UNCHANGED statsVars

\* cancelled in the remote post of track_download: nothing is recorded
WorkerTrackCancelled(w) ==
    /\ OthersYielded(w)
    /\ wpc[w] \in TrackPcs
    /\ connected /\ cancel_pending[w]
    /\ ~Catches("Exception", "CancelledError")
    /\ JobCancelled(w, wpc[w])
    /\ UNCHANGED <<files, memory_downloads, fetch_log, resolved, wresult, trail>>
    /\ UNCHANGED gateVars
    /\ UNCHANGED lifeVars
    /\ UNCHANGED processing_msg
    /\ UNCHANGED scraperVars
    /\ UNCHANGED statsVars

\* os.remove(result['download_path'])
RemoveFile(fs, id) == fs \ {id}

\* the video was sent; the file is removed and the status message deleted
ReplyVideoReturns(w) ==
    /\ OthersYielded(w)
    /\ wpc[w] = "reply_video"
    /\ Thrown(w, FALSE) = "ok"
    /\ files' = RemoveFile(files, wjob[w].id)
    /\ trail' = Mark(w, "video_sent")
    /\ wpc' = [wpc EXCEPT ![w] = "delete_msg"]
    /\ UNCHANGED <<is_processing, wjob, cancel_pending, cancel_at,
                   memory_downloads, fetch_log, resolved, wresult>>
    /\ UNCHANGED gateVars
    /\ UNCHANGED lifeVars
    /\ UNCHANGED processing_msg
    /\ UNCHANGED scraperVars
    /\ UNCHANGED statsVars

\* open(), reply_video or os.remove raised: `except Exception` of the job
ReplyVideoRaises(w) ==
    /\ OthersYielded(w)
    /\ wpc[w] = "reply_video"
    /\ Thrown(w, TRUE) = "Exception"
    /\ trail' = Mark(w, "delivery_raised")
    /\ RaisedInJob(w)
    /\ UNCHANGED <<cancel_pending, cancel_at, files, memory_downloads,
                   fetch_log, wresult>>
    /\ UNCHANGED gateVars
    /\ UNCHANGED lifeVars
    /\ UNCHANGED processing_msg
    /\ UNCHANGED scraperVars
    /\ UNCHANGED statsVars

ReplyVideoCancelled(w) ==
    /\ OthersYielded(w)
    /\ wpc[w] = "reply_video"
    /\ Thrown(w, FALSE) = "CancelledError"
    /\ ~Catches("Exception", "CancelledError")
    /\ JobCancelled(w, "reply_video")
    /\ UNCHANGED <<files, memory_downloads, fetch_log, resolved, wresult, trail>>
    /\ UNCHANGED gateVars
    /\ UNCHANGED lifeVars
    /\ UNCHANGED processing_msg
    /\ UNCHANGED scraperVars
    /\ UNCHANGED statsVars

\* mutant: both failure edits show the generic text, without the error
FinalMessageGeneric(pc, result) ==
    IF pc = "delete_msg" THEN MsgDeleted ELSE MsgError

\* what the last call of a job makes of the status message
FinalMessage(pc, result) ==
    CASE pc = "delete_msg" -> MsgDeleted
      [] pc = "edit_fail" -> MsgFailed(result)
      [] pc = "edit_err" -> MsgError

\* resumed in the last await of a job (processing_msg.delete() or one of the
\* two failure edits), each inside `try: ... except: pass`; then the finally
\* block: task_done(), is_processing = False
WorkerFinishJob(w) ==
    /\ OthersYielded(w)
    /\ wpc[w] \in {"delete_msg", "edit_fail", "edit_err"}
    /\ IF Catches("bare", Thrown(w, FALSE))
       THEN /\ Swallowed(w, wpc[w])
            /\ EditMessage(w, FinalMessage(wpc[w], wresult[w]))
            /\ trail' = Mark(w, wpc[w])
            /\ resolved' = resolved \cup {wjob[w].id}
            /\ wjob' = [wjob EXCEPT ![w] = NoJob]
            /\ wpc' = [wpc EXCEPT ![w] = "loop"]
       ELSE /\ CancelledOut(w, wpc[w])
            /\ UNCHANGED <<resolved, processing_msg, trail>>
    /\ is_processing' = FALSE
    /\ UNCHANGED <<files, memory_downloads, fetch_log, wresult>>
    /\ UNCHANGED gateVars
    /\ UNCHANGED lifeVars
    /\ UNCHANGED scraperVars
    /\ UNCHANGED statsVars

(* ------------------------------ lifespan ------------------------------ *)
\* db.connected after initialize(): without configuration no request is made
\* and it stays False; with it, True when the test request is answered 200,
\* False when it is answered otherwise or raises (caught inside)
InitializeOutcomes(configured) == IF configured THEN {TRUE, FALSE} ELSE {FALSE}

\* await db.initialize(): connected only when Supabase is configured and
\* answers 200; every failure is caught inside
DbInitialize ==
    /\ lpc = "startup"
    /\ \E ok \in InitializeOutcomes(supabase_configured) : connected' = ok
    /\ lpc' = "db_ready"
    /\ UNCHANGED <<supabase_configured, worker_task>>
    /\ UNCHANGED gateVars
    /\ UNCHANGED workerVars
    /\ UNCHANGED processing_msg
    /\ UNCHANGED scraperVars
    /\ UNCHANGED statsVars

\* mutant: a second download_worker task is started beside the first
StartWorkerTwice ==
    /\ lpc = "db_ready"
    /\ worker_task' = 1
    /\ wpc' = [w \in WorkerIds |-> IF w \in {1, 2} THEN "get" ELSE wpc[w]]
    /\ lpc' = "serving"
    /\ UNCHANGED <<supabase_configured, connected>>
    /\ UNCHANGED <<is_processing, wjob, cancel_pending, cancel_at, files,
                   memory_downloads, fetch_log, resolved, wresult, trail>>
    /\ UNCHANGED gateVars
    /\ UNCHANGED processing_msg
    /\ UNCHANGED scraperVars
    /\ UNCHANGED statsVars

\* mutant: the worker task is created before db.initialize() is awaited
StartWorkerEarly ==
    /\ lpc \in {"startup", "db_ready"}
    /\ worker_task' = 1
    /\ wpc' = [wpc EXCEPT ![1] = "get"]
    /\ lpc' = IF lpc = "startup" THEN "startup" ELSE "serving"
    /\ UNCHANGED <<supabase_configured, connected>>
    /\ UNCHANGED <<is_processing, wjob, cancel_pending, cancel_at, files,
                   memory_downloads, fetch_log, resolved, wresult, trail>>
    /\ UNCHANGED gateVars
    /\ UNCHANGED processing_msg
    /\ UNCHANGED scraperVars
    /\ UNCHANGED statsVars

\* worker_task = asyncio.create_task(download_worker()); the Telegram
\* application is set up and updates start to arrive.  The new task runs to
\* its first await, get() on the still empty queue.
StartWorker ==
    /\ lpc = "db_ready"
    /\ worker_task' = 1
    /\ wpc' = [wpc EXCEPT ![1] = "get"]
    /\ lpc' = "serving"
    /\ UNCHANGED <<supabase_configured, connected>>
    /\ UNCHANGED <<is_processing, wjob, cancel_pending, cancel_at, files,
                   memory_downloads, fetch_log, resolved, wresult, trail>>
    /\ UNCHANGED gateVars
    /\ UNCHANGED processing_msg
    /\ UNCHANGED scraperVars
    /\ UNCHANGED statsVars

\* shutdown: `if worker_task: worker_task.cancel()`
Stop ==
    /\ AllYielded
    /\ lpc = "serving"
    /\ IF worker_task # NoTask /\ wpc[worker_task] \notin EndedPcs
       THEN cancel_pending' = [cancel_pending EXCEPT ![worker_task] = TRUE]
       ELSE UNCHANGED cancel_pending
    /\ lpc' = "await_worker"
    /\ UNCHANGED <<supabase_configured, connected, worker_task>>
    /\ UNCHANGED <<is_processing, wpc, wjob, cancel_at, files,
                   memory_downloads, fetch_log, resolved, wresult, trail>>
    /\ UNCHANGED gateVars
    /\ UNCHANGED processing_msg
    /\ UNCHANGED scraperVars
    /\ UNCHANGED statsVars

\* `await worker_task` returns (or raises CancelledError, which is passed)
\* once the task is done
AwaitWorker ==
    /\ AllYielded
    /\ lpc = "await_worker"
    /\ worker_task # NoTask => wpc[worker_task] \in EndedPcs
    /\ lpc' = "stopped"
    /\ UNCHANGED <<supabase_configured, connected, worker_task>>
    /\ UNCHANGED gateVars
    /\ UNCHANGED workerVars
    /\ UNCHANGED processing_msg
    /\ UNCHANGED scraperVars
    /\ UNCHANGED statsVars

(* --------------------------- download_video --------------------------- *)
\* Calls of downloader.download_video in a run of ScraperSpec.
MaxCalls == 2

\* status codes ssstik.io and the media host answer with
Statuses == {200, 404, 500}

\* TikTok URLs, as what the patterns of _extract_video_id look at: the path
\* segment before the last one, the last one, and whether that is digits
\* (none has a run of 19 digits elsewhere)
ScrapeUrls ==
    {[path |-> "video", tail |-> "7123", digits |-> TRUE],
     [path |-> "t", tail |-> "ZM1", digits |-> FALSE]}

\* _extract_video_id: the digits after /video/ or /v/, else None
ExtractVideoId(url) ==
    IF url.path \in {"video", "v"} /\ url.digits THEN Some(url.tail) ELSE None

\* DOWNLOAD_DIR / f"ssstik_{video_id}_{time}.mp4"
Filename(url) == <<"/tmp/downloads/ssstik_", ExtractVideoId(url), ".mp4">>

BASE_URL == <<"https://ssstik.io">>

\* the href of the link found on the answer of the API: protocol-relative,
\* relative to the site, or absolute
Hrefs == {<<"/", "/", "tikcdn.io/v.mp4">>, <<"/", "dl/v.mp4">>,
          <<"https://tikcdn.io/v.mp4">>}

StartsWith(s, prefix) ==
    /\ Len(s) >= Len(prefix)
    /\ SubSeq(s, 1, Len(prefix)) = prefix

\* "Ensure URL is absolute"
Absolute(download_url) ==
    IF StartsWith(download_url, <<"/", "/">>) THEN <<"https:">> \o download_url
    ELSE IF StartsWith(download_url, <<"/">>) THEN BASE_URL \o download_url
    ELSE download_url

\* the answer to a request is noted in the history of the call
Seen(call, status_code, found) ==
    Append(dv.seen, [call |-> call, status_code |-> status_code, found |-> found])

\* an exception with text e is raised inside the try block:
\* `except Exception as e: result['error'] = str(e)`, then `return result`
Caught(e, seen) ==
    dv' = IF Catches("Exception", "Exception")
          THEN [dv EXCEPT !.pc = "return", !.seen = seen,
                          !.result = FailureResult(dv.result.url, e)]
          ELSE [dv EXCEPT !.pc = "raised", !.seen = seen]

\* download_video(tiktok_url) is called: the result dict is built and the
\* HTTP client opened
DownloadVideoCalled(tiktok_url) ==
    /\ dv.pc = "idle"
    /\ Len(dv_log) < MaxCalls
    /\ dv' = [IdleCall EXCEPT !.pc = "get_token", !.result = InitialResult(tiktok_url)]
    /\ UNCHANGED dv_log
    /\ UNCHANGED appVars
    /\ UNCHANGED statsVars

\* _get_token: the page is answered with a status and with or without a
\* token in it
GetToken(status_code, found) ==
    /\ dv.pc = "get_token"
    /\ IF status_code # 200
       THEN Caught(<<"Failed to load page: ", status_code>>,
                   Seen("page", status_code, found))
       ELSE IF ~found
       THEN Caught(<<"Could not find 'tt' token">>, Seen("page", status_code, found))
       ELSE dv' = [dv EXCEPT !.pc = "fetch_links",
                             !.seen = Seen("page", status_code, found)]
    /\ UNCHANGED dv_log
    /\ UNCHANGED appVars
    /\ UNCHANGED statsVars

\* _fetch_download_links: the API is answered with a status and with a
\* download link (href) or none
FetchDownloadLinks(status_code, href) ==
    /\ dv.pc = "fetch_links"
    /\ IF status_code # 200
       THEN Caught(<<"API request failed: ", status_code>>,
                   Seen("api", status_code, href # None))
       ELSE IF href = None
       THEN Caught(<<"No download link found">>, Seen("api", status_code, FALSE))
       ELSE dv' = [dv EXCEPT !.pc = "get_media",
                             !.download_url = Some(Absolute(href[1])),
                             !.seen = Seen("api", status_code, TRUE)]
    /\ UNCHANGED dv_log
    /\ UNCHANGED appVars
    /\ UNCHANGED statsVars

\* client.get(download_url): the media host answers with a status
GetMedia(status_code) ==
    /\ dv.pc = "get_media"
    /\ IF status_code # 200
       THEN Caught(<<"Download failed: ", status_code>>,
                   Seen("media", status_code, FALSE))
       ELSE dv' = [dv EXCEPT !.pc = "save", !.seen = Seen("media", status_code, TRUE)]
    /\ UNCHANGED dv_log
    /\ UNCHANGED appVars
    /\ UNCHANGED statsVars

\* one of the three requests gets no answer: httpx raises (a timeout has an
\* empty text)
RequestFails ==
    /\ dv.pc \in {"get_token", "fetch_links", "get_media"}
    /\ \E e \in {<<"">>, <<"All connection attempts failed">>} :
          Caught(e, Append(dv.seen, [call |-> dv.pc, status_code |-> 0, found |-> FALSE]))
    /\ UNCHANGED dv_log
    /\ UNCHANGED appVars
    /\ UNCHANGED statsVars

\* the file is written, or open()/write() raises
SaveFile(written) ==
    /\ dv.pc = "save"
    /\ IF written
       THEN dv' = [dv EXCEPT !.pc = "return",
                             !.result = SuccessResult(@.url, Filename(@.url))]
       ELSE Caught(<<"[Errno 28] No space left on device">>, dv.seen)
    /\ UNCHANGED dv_log
    /\ UNCHANGED appVars
    /\ UNCHANGED statsVars

\* return result
DownloadVideoReturns ==
    /\ dv.pc = "return"
    /\ dv_log' = Append(dv_log, [result |-> dv.result, seen |-> dv.seen])
    /\ dv' = IdleCall
    /\ UNCHANGED appVars
    /\ UNCHANGED statsVars

ScraperNext ==
    \/ \E tiktok_url \in ScrapeUrls : DownloadVideoCalled(tiktok_url)
    \/ \E status_code \in Statuses, found \in BOOLEAN : GetToken(status_code, found)
    \/ \E status_code \in Statuses, href \in {None} \cup {Some(h) : h \in Hrefs} :
          FetchDownloadLinks(status_code, href)
    \/ \E status_code \in Statuses : GetMedia(status_code)
    \/ RequestFails
    \/ \E written \in BOOLEAN : SaveFile(written)
    \/ DownloadVideoReturns

\* download_video called on its own, against every answer of the two hosts
ScraperSpec == Init /\ [][ScraperNext]_vars

(* ----------------------------- statistics ----------------------------- *)
\* Calls of db.track_download in a run of StatsSpec.
MaxTracked == 3

\* sum(1 for d in downloads if d['success'])
Successful(downloads) ==
    Cardinality({i \in 1..Len(downloads) : downloads[i].success})

\* mutant: the list is not narrowed to the user
UserDownloadsAll(downloads, user_id) == downloads

\* [d for d in self._memory_downloads if d['user_id'] == user_id]
UserDownloads(downloads, user_id) ==
    SelectSeq(downloads, LAMBDA d : d.user_id = user_id)

\* the in-memory fallback of get_stats (today_downloads and total_users,
\* which need created_at and _memory_users, are not modelled)
GetStats(downloads) ==
    [total_downloads |-> Len(downloads),
     successful_downloads |-> Successful(downloads),
     failed_downloads |-> Len(downloads) - Successful(downloads)]

\* the in-memory fallback of get_user_stats (without today_downloads)
GetUserStats(downloads, user_id) ==
    LET user_downloads == UserDownloads(downloads, user_id)
    IN  [total_downloads |-> Len(user_downloads),
         successful_downloads |-> Successful(user_downloads),
         failed_downloads |-> Len(user_downloads) - Successful(user_downloads)]

\* what the worker leaves alone is left alone by the database as well
dbFrame == <<is_processing, wpc, wjob, cancel_pending, cancel_at, files,
             fetch_log, resolved, wresult, trail, processing_msg>>

\* await db.track_download(user_id, url, success) on a database that is not
\* connected: no request is made, the attempt is appended
TrackDownloadCalled(user_id, url, success) ==
    /\ ~connected
    /\ Len(db_calls) < MaxTracked
    /\ memory_downloads' =
          TrackDownload(memory_downloads,
                        [NoJob EXCEPT !.user_id = user_id, !.url = url], success)
    /\ db_calls' = Append(db_calls, [user_id |-> user_id, success |-> success])
    /\ UNCHANGED db_read
    /\ UNCHANGED dbFrame
    /\ UNCHANGED gateVars
    /\ UNCHANGED lifeVars
    /\ UNCHANGED scraperVars

\* await db.get_stats() on a database that is not connected
GetStatsCalled ==
    /\ ~connected
    /\ db_read' = [op |-> "get_stats", user_id |-> 0,
                   stats |-> GetStats(memory_downloads)]
    /\ UNCHANGED <<memory_downloads, db_calls>>
    /\ UNCHANGED dbFrame
    /\ UNCHANGED gateVars
    /\ UNCHANGED lifeVars
    /\ UNCHANGED scraperVars

\* await db.get_user_stats(user_id) on a database that is not connected
GetUserStatsCalled(user_id) ==
    /\ ~connected
    /\ db_read' = [op |-> "get_user_stats", user_id |-> user_id,
                   stats |-> GetUserStats(memory_downloads, user_id)]
    /\ UNCHANGED <<memory_downloads, db_calls>>
    /\ UNCHANGED dbFrame
    /\ UNCHANGED gateVars
    /\ UNCHANGED lifeVars
    /\ UNCHANGED scraperVars

StatsNext ==
    \/ \E user_id \in Users, success \in BOOLEAN :
          TrackDownloadCalled(user_id, Strip(UrlMixed), success)
    \/ GetStatsCalled
    \/ \E user_id \in Users : GetUserStatsCalled(user_id)

StatsInit == Boot(FALSE)

\* the Database object alone, never connected, under any sequence of calls
StatsSpec == StatsInit /\ [][StatsNext]_vars

(* --------------------------- specifications --------------------------- *)
GateStep ==
    \/ \E h \in HandlerIds, u \in Users, txt \in Texts : HandleMessage(h, u, txt)
    \/ \E h \in HandlerIds : AckReturns(h)
    \/ \E h \in HandlerIds : AckRaises(h)

WorkerStep ==
    \/ \E w \in WorkerIds : WorkerGet(w)
    \/ \E w \in WorkerIds : WorkerLoop(w)
    \/ \E w \in WorkerIds : WorkerEditStatus(w)
    \/ \E w \in WorkerIds : DownloadSucceeds(w)
    \/ \E w \in WorkerIds : DownloadFails(w)
    \/ \E w \in WorkerIds : DownloadRaises(w)
    \/ \E w \in WorkerIds : WorkerTrack(w)
    \/ \E w \in WorkerIds : ReplyVideoReturns(w)
    \/ \E w \in WorkerIds : ReplyVideoRaises(w)
    \/ \E w \in WorkerIds : WorkerFinishJob(w)

CancelStep ==
    \/ \E w \in WorkerIds : WorkerGetCancelled(w)
    \/ \E w \in WorkerIds : DownloadCancelled(w)
    \/ \E w \in WorkerIds : WorkerTrackCancelled(w)
    \/ \E w \in WorkerIds : ReplyVideoCancelled(w)

\* The application with its worker and its lifecycle.  Every submission of a
\* run reads the same clock value (time is the subject of GateSpec).
Next ==
    \/ GateStep
    \/ WorkerStep
    \/ CancelStep
    \/ DbInitialize
    \/ StartWorker
    \/ Stop
    \/ AwaitWorker

Spec == Init /\ [][Next]_vars

\* the same application, started in either deployment
StartupSpec == StartupInit /\ [][Next]_vars

\* The admission path over time: the application has started, storage is the
\* in-memory one, and the worker stays suspended in get() for the whole run.
GateInit ==
    /\ now = 0
    /\ user_cooldowns = <<>>
    /\ download_queue = <<>>
    /\ is_processing = FALSE
    /\ supabase_configured = FALSE
    /\ connected = FALSE
    /\ worker_task = 1
    /\ lpc = "serving"
    /\ wpc = [w \in WorkerIds |-> IF w = 1 THEN "get" ELSE "unborn"]
    /\ wjob = [w \in WorkerIds |-> NoJob]
    /\ cancel_pending = [w \in WorkerIds |-> FALSE]
    /\ cancel_at = [w \in WorkerIds |-> "none"]
    /\ handler = [h \in HandlerIds |-> IdleHandler]
    /\ files = {}
    /\ memory_downloads = <<>>
    /\ enq_log = <<>>
    /\ put_depth = [h \in HandlerIds |-> 0]
    /\ fetch_log = <<>>
    /\ resolved = {}
    /\ processing_msg = [w \in WorkerIds |-> NoMessage]
    /\ wresult = [w \in WorkerIds |-> NoResult]
    /\ trail = [w \in WorkerIds |-> NoTrail]
    /\ dv = IdleCall
    /\ dv_log = <<>>
    /\ db_calls = <<>>
    /\ db_read = NoRead

GateNext ==
    \/ Tick
    \/ GateStep

GateSpec == GateInit /\ [][GateNext]_vars

\* The application while stop() is never issued.  Every call the worker awaits
\* returns or raises and the event loop then resumes the worker, so a worker
\* step that stays possible is eventually taken.
LiveNext ==
    \/ GateStep
    \/ WorkerStep
    \/ DbInitialize
    \/ StartWorker

LiveSpec ==
    /\ Init
    /\ [][LiveNext]_vars
    /\ WF_vars(WorkerStep)

(* ------------------------------ claims -------------------------------- *)
Range(f) == {f[i] : i \in DOMAIN f}

Started(h) == handler[h].pc # "idle"
Finished(h) == handler[h].pc \in {"done", "failed"}

\* the positions of a worker between its dequeue and the end of its finally
JobPcs == {"edit_status", "download", "reply_video", "delete_msg", "edit_fail",
           "edit_err"} \cup TrackPcs

InFlight == {w \in WorkerIds : wpc[w] \in JobPcs}

\* C1: at most one job is in flight: at most one worker task is between its
\* dequeue and the end of its finally block, so download_video is never
\* entered while another job is fetched, delivered or cleaned up.
C1_AtMostOneInFlight ==
    /\ Cardinality(InFlight) <= 1
    /\ Cardinality({w \in WorkerIds : wjob[w] # NoJob}) <= 1
    /\ \A w \in WorkerIds : wpc[w] \in JobPcs <=> wjob[w] # NoJob

\* a job is being fetched while another one waits in the queue
C1_Witness ==
    \E w \in WorkerIds : wpc[w] = "download" /\ Len(download_queue) >= 1

\* g is an accepted submission, and h a later one of the same submitter made
\* less than the cooldown window after it
InsideWindow(g, h) ==
    /\ g < h
    /\ handler[g].verdict = "accepted"
    /\ Started(h)
    /\ handler[h].user = handler[g].user
    /\ handler[h].at - handler[g].at < CooldownTicks

\* C2: a submission made less than COOLDOWN_SECONDS after an accepted one of
\* the same submitter is rejected and never enqueues a job, so two accepted
\* submissions of one submitter are at least the window apart.
C2_CooldownRejects ==
    \A g, h \in HandlerIds :
        InsideWindow(g, h) =>
            /\ handler[h].verdict \in {"cooldown", "invalid"}
            /\ h \notin Range(enq_log)
            /\ \A i \in 1..Len(download_queue) : download_queue[i].id # h

\* a well-formed submission one tick before the end of the window was rejected
C2_Witness ==
    \E g, h \in HandlerIds :
        /\ InsideWindow(g, h)
        /\ handler[h].at - handler[g].at = CooldownTicks - 1
        /\ handler[h].verdict = "cooldown"

\* ceil of a number of ticks, in seconds
CeilOf(ticks) == (ticks + TicksPerSecond - 1) \div TicksPerSecond

\* C3: the remaining seconds shown on a cooldown rejection are
\* ceil(COOLDOWN_SECONDS - elapsed), hence at least 1.
C3_RemainingIsCeil ==
    \A h \in HandlerIds :
        handler[h].verdict = "cooldown" =>
            /\ handler[h].shown = CeilOf(handler[h].remaining)
            /\ handler[h].shown >= 1

\* h is well-formed and no accepted submission of its submitter lies less
\* than the window before it
OutsideWindow(h) ==
    /\ Finished(h)
    /\ IsTikTokUrl(handler[h].text)
    /\ \A g \in HandlerIds : ~InsideWindow(g, h)

\* C4: a well-formed submission at least COOLDOWN_SECONDS after the last
\* accepted one (or the first of its submitter) is accepted: the registry is
\* updated to its time and its job is enqueued.
C4_AcceptedAfterWindow ==
    \A h \in HandlerIds :
        OutsideWindow(h) =>
            /\ handler[h].verdict = "accepted"
            /\ handler[h].user \in DOMAIN user_cooldowns
            /\ user_cooldowns[handler[h].user] >= handler[h].at
            /\ h \in Range(enq_log)

\* C5: jobs are fetched in the order they were put: the fetch order is a
\* prefix of the put order, and the queue holds exactly the jobs put and not
\* yet taken, in put order.
C5_Fifo ==
    /\ Len(fetch_log) <= Len(enq_log)
    /\ \A i \in 1..Len(fetch_log) : fetch_log[i] = enq_log[i]
    /\ Len(download_queue) <= Len(enq_log)
    /\ \A i \in 1..Len(download_queue) :
          download_queue[i].id = enq_log[Len(enq_log) - Len(download_queue) + i]

\* two jobs were in the queue together and both have been fetched
C5_Witness ==
    \E h \in HandlerIds :
        /\ put_depth[h] >= 1
        /\ h \in Range(fetch_log)
        /\ Len(fetch_log) >= 2

\* C6: without stop(), every enqueued job is fetched, and no job is fetched
\* twice: download_video is entered once per accepted job.
C6_ExactlyOnce ==
    /\ [](\A i, j \in 1..Len(fetch_log) : fetch_log[i] = fetch_log[j] => i = j)
    /\ [](Range(fetch_log) \subseteq Range(enq_log))
    /\ \A h \in HandlerIds : (h \in Range(enq_log)) ~> (h \in Range(fetch_log))

\* two jobs were accepted and both have been fetched
C6_Witness == Len(enq_log) >= 2 /\ Len(fetch_log) = Len(enq_log)

\* C7: once a job is resolved, its artifact is no longer on disk.
C7_ArtifactsRemoved == files \cap resolved = {}

\* C8: a cancellation requested by stop() is never lost: while shutdown waits
\* for the worker, the worker has ended or its cancellation is still to be
\* delivered.
C8_CancelNeverLost ==
    (lpc = "await_worker" /\ worker_task # NoTask) =>
        \/ wpc[worker_task] \in {"returned", "cancelled"}
        \/ cancel_pending[worker_task]

\* C9: a worker cancelled while suspended in get() on the empty queue ends by
\* returning (no exception leaves the task) and the queue stays empty.
C9_IdleCancel ==
    [][\A w \in WorkerIds :
          (/\ wpc[w] = "get"
           /\ cancel_pending[w]
           /\ download_queue = <<>>
           /\ wpc'[w] # wpc[w])
          => (wpc'[w] = "returned" /\ download_queue' = <<>>)]_vars

\* shutdown has completed after the idle worker was cancelled in get()
C9_Witness ==
    /\ lpc = "stopped"
    /\ worker_task # NoTask
    /\ wpc[worker_task] = "returned"
    /\ cancel_at[worker_task] = "get"
    /\ download_queue = <<>>
    /\ enq_log = <<>>

\* the queue_position stored in the task dict of job h
StoredPosition(h) == TaskDict(h).queue_position

\* C10: the position stored with an accepted job is the number of jobs in the
\* queue at the moment of its put (0 when none is ahead).
C10_PositionIsDepth ==
    \A i \in 1..Len(enq_log) : StoredPosition(enq_log[i]) = put_depth[enq_log[i]]

\* h has been rejected: its text lacks the marker, or its submitter's cooldown
\* was active
Rejected(h) == handler[h].verdict \in {"invalid", "cooldown"}

\* C11: a rejected submission changes nothing: the step that rejects it leaves
\* download_queue and user_cooldowns as they were (the cooldown is not
\* extended), and its job is never put on the queue.
C11_RejectedChangesNothing ==
    /\ [][\A h \in HandlerIds :
             (~Rejected(h) /\ Rejected(h)')
             => /\ download_queue' = download_queue
                /\ user_cooldowns' = user_cooldowns
                /\ Finished(h)']_vars
    /\ [](\A h \in HandlerIds :
             Rejected(h) =>
                 /\ h \notin Range(enq_log)
                 /\ \A i \in 1..Len(download_queue) : download_queue[i].id # h)

\* a submission was rejected for its cooldown after a later instant than the
\* accepted one, whose job waits in the queue
C11_Witness ==
    \E g, h \in HandlerIds :
        /\ handler[g].verdict = "accepted"
        /\ handler[h].verdict = "cooldown"
        /\ handler[h].user = handler[g].user
        /\ handler[h].at > handler[g].at
        /\ user_cooldowns[handler[h].user] = handler[g].at
        /\ Len(download_queue) = 1

\* C13: the worker is never running before db.initialize() has completed:
\* while the lifespan has not yet returned from initialize() no worker task
\* exists, nothing has been dequeued and nothing has been recorded.
C13_InitBeforeWorker ==
    lpc = "startup" =>
        /\ worker_task = NoTask
        /\ \A w \in WorkerIds : wpc[w] = "unborn"
        /\ fetch_log = <<>>
        /\ memory_downloads = <<>>

\* initialize() has completed without a connection and the worker, created
\* after it, has recorded an attempt in the in-memory storage
C13_Witness ==
    /\ lpc = "serving"
    /\ ~connected
    /\ worker_task # NoTask
    /\ memory_downloads # <<>>

\* the first invocation of handle_message that has not started yet
NextHandler(h) ==
    /\ handler[h].pc = "idle"
    /\ \A g \in HandlerIds : g < h => handler[g].pc # "idle"

\* C19: a submission never waits for the worker.  Whenever the worker is
\* suspended at an await (in get(), anywhere in a job, in a fetch of any
\* length) or has ended, an arriving submission can be handled, and a handler
\* whose acknowledgement was sent can put its job and return; put() on the
\* queue never suspends.  A worker that is running between two awaits reaches
\* its next await on its own.
C19_HandlerNeverWaits ==
    /\ \A h \in HandlerIds :
          (handler[h].pc = "ack" /\ AllYielded) => ENABLED AckReturns(h)
    /\ \A h \in HandlerIds :
          (NextHandler(h) /\ Serving /\ AllYielded) =>
              \A txt \in Texts : ENABLED HandleMessage(h, 1, txt)
    /\ ~QueueFull(download_queue)
    /\ ~AllYielded => ENABLED WorkerStep

\* a handler is about to put its job while the worker is suspended in the
\* fetch of an earlier job
C19_Witness ==
    \E h \in HandlerIds, w \in WorkerIds :
        /\ handler[h].pc = "ack"
        /\ wpc[w] = "download"
        /\ wjob[w].id # h

\* The application over time while stop() is never issued: the admission path
\* and the worker together, with submissions a cooldown window apart.
TimedNext ==
    \/ LiveNext
    \/ TickWindow

TimedSpec == Init /\ [][TimedNext]_vars

\* the step is the accepting return of invocation h of handle_message
Accepts(h) == handler[h].pc = "idle" /\ handler'[h].verdict = "accepted"

\* C18: user_cooldowns is written only by the admission path: every step
\* that changes it is the acceptance of a submission, it writes the entry of
\* that submission's submitter only, the new timestamp is the time of the
\* submission and not earlier than the one it replaces, and no entry is ever
\* removed.  No step of the worker changes the registry.
C18_RegistryDiscipline ==
    [][/\ (\A h \in HandlerIds : ~Accepts(h)) => user_cooldowns' = user_cooldowns
       /\ \A h \in HandlerIds :
             Accepts(h) =>
                 LET u == handler'[h].user
                 IN  /\ DOMAIN user_cooldowns' = DOMAIN user_cooldowns \cup {u}
                     /\ user_cooldowns'[u] = now
                     /\ u \in DOMAIN user_cooldowns =>
                            user_cooldowns'[u] >= user_cooldowns[u]
                     /\ \A x \in DOMAIN user_cooldowns :
                            x # u => user_cooldowns'[x] = user_cooldowns[x]]_vars

\* a submitter's entry was replaced by the later time of a second accepted
\* submission, and the worker has resolved a job meanwhile
C18_Witness ==
    \E g, h \in HandlerIds :
        /\ g < h
        /\ handler[g].verdict = "accepted"
        /\ handler[h].verdict = "accepted"
        /\ handler[g].user = handler[h].user
        /\ user_cooldowns[handler[h].user] = handler[h].at
        /\ handler[h].at > handler[g].at
        /\ resolved # {}

\* the attempts recorded for job id, as positions in the in-memory list
AttemptsFor(id) ==
    {i \in 1..Len(memory_downloads) : memory_downloads[i].job = id}

\* the fetches of job id, as positions in the fetch order
FetchesOf(id) == {i \in 1..Len(fetch_log) : fetch_log[i] = id}

\* the fetch of the job w took last returned a failure result, or raised
FetchFailedJob(w) == trail[w].did \cap {"fetch_failed", "fetch_raised"} # {}

\* the text the failure edit of the job w took last is to show
FailureText(w) ==
    IF "fetch_failed" \in trail[w].did THEN MsgFailed(wresult[w]) ELSE MsgError

ResultContract(r) ==
    /\ r.success => (r.download_path # None /\ r.error = None)
    /\ ~r.success => (r.download_path = None /\ r.error # None)

\* one of the requests of a call was not answered with 200, or its answer
\* lacked the token or the download link
OrdinaryFailure(seen) ==
    \E i \in 1..Len(seen) : seen[i].status_code # 200 \/ ~seen[i].found

\* what is returned agrees with what the call has seen
ReturnedAsSeen(r, seen) ==
    /\ ResultContract(r)
    /\ OrdinaryFailure(seen) => ~r.success
    /\ r.success => Len(seen) = 3

\* C14: download_video does not raise for an ordinary failure (token page
\* not 200, token not found, API not 200, no download link, media not 200):
\* it returns a result with success = False; and every returned result has
\* success => download_path set and error unset, and not success =>
\* download_path unset and error set.
C14_ScraperContract ==
    /\ dv.pc # "raised"
    /\ dv.pc = "return" => ReturnedAsSeen(dv.result, dv.seen)
    /\ \A i \in 1..Len(dv_log) : ReturnedAsSeen(dv_log[i].result, dv_log[i].seen)

\* one call returned a success with its path, and another returned a failure
\* after the API answered 200 without a download link
C14_Witness ==
    \E i, j \in 1..Len(dv_log) :
        /\ dv_log[i].result.success
        /\ dv_log[i].result.download_path # None
        /\ ~dv_log[j].result.success
        /\ dv_log[j].result.error = Some(<<"No download link found">>)
        /\ dv_log[j].seen[2].status_code = 200

\* the jobs waiting in the queue
Queued == {download_queue[i].id : i \in 1..Len(download_queue)}

\* C15: no job is lost on cancellation: once the worker has ended, every job
\* that was put on the queue is still in the queue, or was resolved with an
\* attempt recorded for it.
C15_NoJobLost ==
    \A w \in WorkerIds :
        wpc[w] \in EndedPcs =>
            \A h \in Range(enq_log) :
                \/ h \in Queued
                \/ h \in resolved /\ AttemptsFor(h) # {}

\* C16: a delivery failure is recorded like a fetch failure: when the fetch
\* of a job succeeded and delivering its video raised, then once the job is
\* resolved exactly one attempt is recorded for it, a failed one, and the job
\* is not in the queue again.
C16_DeliveryFailureRecorded ==
    \A w \in WorkerIds :
        ("delivery_raised" \in trail[w].did /\ trail[w].job \in resolved) =>
            /\ Cardinality(AttemptsFor(trail[w].job)) = 1
            /\ \A i \in AttemptsFor(trail[w].job) : ~memory_downloads[i].success
            /\ trail[w].job \notin Queued

\* what went wrong in the job a worker took last, other than a cancellation
JobFailures == {"fetch_failed", "fetch_raised", "post_failed", "delivery_raised"}

\* C17: the worker survives job errors: its coroutine is never ended by an
\* exception, it ends only where a cancellation was delivered, and after a
\* job in which something failed it is back at download_queue.get() (at the
\* top of the loop or suspended in get()) unless it was cancelled since.
C17_WorkerSurvives ==
    \A w \in WorkerIds :
        /\ wpc[w] # "raised"
        /\ wpc[w] \in EndedPcs => cancel_at[w] # "none"
        /\ (trail[w].job \in resolved /\ trail[w].did \cap JobFailures # {}) =>
              /\ wjob[w] = NoJob
              /\ wpc[w] \in {"loop", "get"} \cup EndedPcs

\* a job whose delivery raised was recorded twice and resolved, and the
\* worker is sending the video of the next job
C17_Witness ==
    \E w \in WorkerIds :
        /\ wpc[w] = "reply_video"
        /\ \E h \in resolved \ {wjob[w].id} : Cardinality(AttemptsFor(h)) = 2

\* C20: a statistics outage does not hide the outcome: when the remote post
\* of track_download failed in a job that is now resolved, the failure was
\* swallowed (the attempt is in the statistics all the same), the outcome
\* went to the submitter as without the outage (on fetch success the video
\* was sent unless the delivery itself raised, on fetch failure the failure
\* edit was made), and the worker is back at download_queue.get() unless it
\* was cancelled since.
C20_OutageDoesNotHideOutcome ==
    \A w \in WorkerIds :
        ("post_failed" \in trail[w].did /\ trail[w].job \in resolved) =>
            /\ AttemptsFor(trail[w].job) # {}
            /\ "fetch_ok" \in trail[w].did =>
                  \/ "video_sent" \in trail[w].did
                  \/ "delivery_raised" \in trail[w].did
            /\ "fetch_failed" \in trail[w].did => "edit_fail" \in trail[w].did
            /\ "fetch_raised" \in trail[w].did => "edit_err" \in trail[w].did
            /\ wpc[w] \in {"loop", "get"} \cup EndedPcs

\* the remote post failed in a job whose video was sent all the same, and
\* the worker has taken up waiting for the next job
C20_Witness ==
    \E w \in WorkerIds :
        /\ wpc[w] = "get"
        /\ trail[w].job \in resolved
        /\ {"post_failed", "fetch_ok", "video_sent"} \subseteq trail[w].did

\* C22: admission order is queue order: invocations are numbered in the
\* order in which they wrote the cooldown registry and read the queue size,
\* so the jobs were put on download_queue in increasing number, and two jobs
\* waiting in the queue together never carry the same position.
C22_AdmissionOrderIsQueueOrder ==
    /\ \A i, j \in 1..Len(enq_log) : i < j => enq_log[i] < enq_log[j]
    /\ \A i, j \in 1..Len(download_queue) :
          i # j => download_queue[i].queue_position # download_queue[j].queue_position

\* C23: the cooldown is consumed only by an enqueued job: every invocation
\* that wrote the registry and has left handle_message has put exactly one
\* job on download_queue.
C23_CooldownOnlyWithJob ==
    \A h \in HandlerIds :
        (handler[h].verdict = "accepted" /\ handler[h].pc # "ack") =>
            Cardinality({i \in 1..Len(enq_log) : enq_log[i] = h}) = 1

\* C25: is_processing never desynchronises from the worker: it is true
\* exactly when a worker is between get() and the finally block of a job,
\* which is exactly when it holds a task, and it is false whenever the worker
\* waits in download_queue.get() or has ended.
C25_FlagFollowsWorker ==
    /\ is_processing <=> \E w \in WorkerIds : wpc[w] \in JobPcs
    /\ \A w \in WorkerIds : wpc[w] \in JobPcs <=> wjob[w] # NoJob
    /\ \A w \in WorkerIds : wpc[w] \in {"get"} \cup EndedPcs => ~is_processing

\* a worker was cancelled while it fetched a video and has ended with the
\* flag reset
C25_Witness ==
    \E w \in WorkerIds :
        /\ wpc[w] \in EndedPcs
        /\ cancel_at[w] = "download"
        /\ ~is_processing

\* C21: startup aborts on unusable storage: when db.initialize() has run
\* against a configured Supabase and failed (db.connected is False), no
\* worker task is created and no worker runs.
C21_StartupAbortsOnFailedStorage ==
    (lpc # "startup" /\ supabase_configured /\ ~connected) =>
        /\ worker_task = NoTask
        /\ \A w \in WorkerIds : wpc[w] = "unborn"

\* the calls of track_download made for a user, and those that reported success
CallsBy(u) == {i \in 1..Len(db_calls) : db_calls[i].user_id = u}
GoodCalls(S) == {i \in S : db_calls[i].success}

StatFields == {"total_downloads", "successful_downloads", "failed_downloads"}

\* get_user_stats summed over the users 1..n
RECURSIVE SumOfUsers(_, _)
SumOfUsers(field, n) ==
    IF n = 0 THEN 0
    ELSE GetUserStats(memory_downloads, n)[field] + SumOfUsers(field, n - 1)

\* what a read returns matches the calls made so far
StatsMatchCalls ==
    LET s == GetStats(memory_downloads)
    IN  /\ s.total_downloads = Len(db_calls)
        /\ s.successful_downloads = Cardinality(GoodCalls(1..Len(db_calls)))
        /\ s.failed_downloads = s.total_downloads - s.successful_downloads
        /\ s.failed_downloads >= 0
        /\ \A u \in Users :
              LET r == GetUserStats(memory_downloads, u)
              IN  /\ r.total_downloads = Cardinality(CallsBy(u))
                  /\ r.successful_downloads = Cardinality(GoodCalls(CallsBy(u)))
                  /\ r.failed_downloads = r.total_downloads - r.successful_downloads
                  /\ r.failed_downloads >= 0
        /\ \A field \in StatFields : SumOfUsers(field, NumUsers) = s[field]

\* a step in which statistics were read
StatsRead == db_read' # db_read

\* C24: in-memory statistics consistency: on a database that is not
\* connected, after any sequence of track_download calls get_stats reports
\* the number of calls, the number of successful ones and their difference,
\* never negative; get_user_stats reports each user's share and the shares sum
\* to the aggregate; a read returns these values and changes nothing.
C24_StatsConsistent ==
    /\ [](~connected => StatsMatchCalls)
    /\ [][StatsRead =>
            /\ memory_downloads' = memory_downloads
            /\ db_calls' = db_calls
            /\ db_read'.stats =
                  IF db_read'.op = "get_stats" THEN GetStats(memory_downloads)
                  ELSE GetUserStats(memory_downloads, db_read'.user_id)]_vars

\* get_user_stats was read for a user who has a failed and a successful
\* attempt while another user has attempts too
C24_Witness ==
    /\ db_read.op = "get_user_stats"
    /\ db_read.stats.successful_downloads = 1
    /\ db_read.stats.failed_downloads = 1
    /\ Len(memory_downloads) > db_read.stats.total_downloads
    /\ db_read.stats = GetUserStats(memory_downloads, db_read.user_id)

====
